---- MODULE Spec2Model ----
(***************************************************************************)
(* Model of src/ali/data_io.py: the File Locator (_find_patient_ab_files), *)
(* the per-patient extraction (row selection, numeric coercion, delta) and *)
(* the cohort loop of calculate_delta_radiomics with the final conversion  *)
(* of the three accumulating mappings into tables.                         *)
(*                                                                         *)
(* Text (file names, paths, labels) is a sequence of one-character         *)
(* strings, so that upper-casing, suffix and substring tests, regular-     *)
(* expression search and Python's code-point ordering are computed.        *)
(***************************************************************************)
EXTENDS Naturals, Integers, Sequences, FiniteSets, TLC

VARIABLES
    \* _find_patient_ab_files run on its own
    fpc, listing, candidates, found,
    \* one patient's extraction (the try block) run on its own
    epc, df_A, df_B, extracted,
    \* calculate_delta_radiomics
    pc, queue, idx, tree, all_delta_radiomics, A_radiomics, B_radiomics,
    located, warned, faulted, delta_df, A_df, B_df

findVars == <<fpc, listing, candidates, found>>
extractVars == <<epc, df_A, df_B, extracted>>
cohortVars == <<pc, queue, idx, tree, all_delta_radiomics, A_radiomics,
                B_radiomics, located, warned, faulted, delta_df, A_df, B_df>>
vars == <<findVars, extractVars, cohortVars>>

----------------------------------------------------------------------------
(* Text *)

\* The characters used, in code-point order (Python compares str by code point).
Ascii ==
    <<".", "/", "0", "1", "2", "3", "4", "5", "6", "7", "8", "9",
      "A", "B", "C", "D", "E", "F", "G", "H", "I", "J", "K", "L", "M",
      "N", "O", "P", "Q", "R", "S", "T", "U", "V", "W", "X", "Y", "Z",
      "_",
      "a", "b", "c", "d", "e", "f", "g", "h", "i", "j", "k", "l", "m",
      "n", "o", "p", "q", "r", "s", "t", "u", "v", "w", "x", "y", "z">>

CodePoints == [c \in {Ascii[i] : i \in 1..Len(Ascii)} |->
                 CHOOSE i \in 1..Len(Ascii) : Ascii[i] = c]
Code(c) == CodePoints[c]

LowerCase == SubSeq(Ascii, 40, 65)
UpperCase == SubSeq(Ascii, 13, 38)

\* str.upper() on one character
UpperChar(c) ==
    IF \E i \in 1..26 : LowerCase[i] = c
    THEN UpperCase[CHOOSE i \in 1..26 : LowerCase[i] = c]
    ELSE c

\* str.upper()
upper(s) == [i \in 1..Len(s) |-> UpperChar(s[i])]

\* str.endswith(suffix)
endswith(s, suffix) ==
    /\ Len(suffix) <= Len(s)
    /\ SubSeq(s, Len(s) - Len(suffix) + 1, Len(s)) = suffix

\* `sub in s` on str: literal substring containment
Contains(sub, s) ==
    \E i \in 0..(Len(s) - Len(sub)) :
        \A j \in 1..Len(sub) : s[i + j] = sub[j]

\* s < t on str: lexicographic by code point, a proper prefix is smaller
StrLess(s, t) ==
    \E i \in 1..(Len(t)) :
        /\ i <= Len(s) + 1
        /\ \A j \in 1..(i - 1) : s[j] = t[j]
        /\ \/ i = Len(s) + 1
           \/ i <= Len(s) /\ Code(s[i]) < Code(t[i])

\* one insertion step of sorted(): x goes before the first element greater than it
Insert(x, sortedSeq) ==
    LET k == Cardinality({i \in 1..Len(sortedSeq) : ~ StrLess(x, sortedSeq[i])})
    IN  SubSeq(sortedSeq, 1, k) \o <<x>> \o SubSeq(sortedSeq, k + 1, Len(sortedSeq))

\* sorted(list of str)
RECURSIVE sorted(_)
sorted(seq) ==
    IF seq = <<>> THEN <<>>
    ELSE Insert(seq[Len(seq)], sorted(SubSeq(seq, 1, Len(seq) - 1)))

\* os.path.join(a, b) for a relative b
join(a, b) == a \o <<"/">> \o b

\* Python's None, for a path slot; falsy, as is the empty path
None == <<>>

\* every ordering of a finite set as a sequence without repetition
Orderings(S) ==
    {q \in [1..Cardinality(S) -> S] : \A i, j \in 1..Cardinality(S) : q[i] = q[j] => i = j}

----------------------------------------------------------------------------
(* File Locator *)

Xlsx == <<".", "x", "l", "s", "x">>
MarkA == <<"_", "A">>
MarkB == <<"_", "B">>

\* the a_candidates / b_candidates lists after the loop over os.listdir(patient_path)
a_candidates(patient_path, names) ==
    LET paths == [i \in 1..Len(names) |-> join(patient_path, names[i])]
        isA(i) == endswith(paths[i], Xlsx) /\ Contains(MarkA, upper(names[i]))
        pick == SelectSeq([i \in 1..Len(names) |-> i], isA)
    IN  [k \in 1..Len(pick) |-> paths[pick[k]]]

\* the elif of line 137 written as an if: the A marker no longer excludes
b_candidates_if(patient_path, names) ==
    LET paths == [i \in 1..Len(names) |-> join(patient_path, names[i])]
        isB(i) == endswith(paths[i], Xlsx) /\ Contains(MarkB, upper(names[i]))
        pick == SelectSeq([i \in 1..Len(names) |-> i], isB)
    IN  [k \in 1..Len(pick) |-> paths[pick[k]]]

b_candidates(patient_path, names) ==
    LET paths == [i \in 1..Len(names) |-> join(patient_path, names[i])]
        isB(i) == /\ endswith(paths[i], Xlsx)
                  /\ ~ Contains(MarkA, upper(names[i]))
                  /\ Contains(MarkB, upper(names[i]))
        pick == SelectSeq([i \in 1..Len(names) |-> i], isB)
    IN  [k \in 1..Len(pick) |-> paths[pick[k]]]

\* candidates[0] without the sort: the first in listing order
FirstListed(cands) ==
    IF cands # <<>> THEN cands[1] ELSE None

\* sorted(candidates)[0] if candidates else None
FirstSorted(cands) ==
    IF cands # <<>> THEN sorted(cands)[1] ELSE None

\* _find_patient_ab_files(patient_path), names being what os.listdir yields
_find_patient_ab_files(patient_path, names) ==
    [A |-> FirstSorted(a_candidates(patient_path, names)),
     B |-> FirstSorted(b_candidates(patient_path, names))]

----------------------------------------------------------------------------
(* Cells, frames and series *)

\* A spreadsheet cell as pandas holds it: a number, a text, or missing (NaN).
Num(n) == [t |-> "num", n |-> n, s |-> <<>>]
Str(s) == [t |-> "str", n |-> 0, s |-> s]
NaN == [t |-> "nan", n |-> 0, s |-> <<>>]

DigitChars == SubSeq(Ascii, 3, 12)
IsDigit(c) == \E i \in 1..10 : DigitChars[i] = c
DigitVal(c) == (CHOOSE i \in 1..10 : DigitChars[i] = c) - 1

\* str(n) for a natural number
RECURSIVE Digits(_)
Digits(n) ==
    IF n < 10 THEN <<DigitChars[n + 1]>>
    ELSE Digits(n \div 10) \o <<DigitChars[(n % 10) + 1]>>

\* int(s) for a text of decimal digits
RECURSIVE DigitsValue(_)
DigitsValue(s) ==
    IF s = <<>> THEN 0
    ELSE 10 * DigitsValue(SubSeq(s, 1, Len(s) - 1)) + DigitVal(s[Len(s)])

\* Series.astype(str) on one cell: a missing value becomes the text "nan"
astype_str(cell) ==
    CASE cell.t = "str" -> cell.s
      [] cell.t = "nan" -> <<"n", "a", "n">>
      [] OTHER -> IF cell.n < 0 THEN <<"-">> \o Digits(0 - cell.n) ELSE Digits(cell.n)

\* re.search(pattern, s) for a pattern of literal characters and "." (any
\* character but a newline): Series.str.contains has regex=True by default
RegexSearch(pattern, s) ==
    \E i \in 0..(Len(s) - Len(pattern)) :
        \A j \in 1..Len(pattern) :
            \/ pattern[j] = "." /\ s[i + j] # "\n"
            \/ pattern[j] # "." /\ pattern[j] = s[i + j]

Segmentation == <<"S", "e", "g", "m", "e", "n", "t", "a", "t", "i", "o", "n">>
Tag == <<"s", "u", "v", "2", ".", "5">>
feature_start_col == 23

\* "Segmentation" in df.columns
HasSegmentation(df) == \E i \in 1..Len(df.columns) : df.columns[i] = Segmentation

\* df["Segmentation"].astype(str).str.contains("suv2.5", na=False), one truth value per row
Mask(df) ==
    LET c == CHOOSE i \in 1..Len(df.columns) : df.columns[i] = Segmentation
    IN  [r \in 1..Len(df.rows) |-> RegexSearch(Tag, astype_str(df.rows[r][c]))]

\* mask.any()
MaskAny(mask) == \E r \in 1..Len(mask) : mask[r]

\* the position in df of the row df.loc[mask].iloc[0]
FirstMasked(mask) ==
    CHOOSE r \in 1..Len(mask) : mask[r] /\ \A q \in 1..(r - 1) : ~ mask[q]

\* df.iloc[r, feature_start_col:] as a series: (column name, cell) in column order
FeatureRow(df, r) ==
    IF Len(df.columns) <= feature_start_col THEN <<>>
    ELSE [j \in 1..(Len(df.columns) - feature_start_col) |->
            [k |-> df.columns[feature_start_col + j],
             v |-> df.rows[r][feature_start_col + j]]]

\* pd.to_numeric(x, errors="coerce") on one cell
ToNumericCell(cell) ==
    CASE cell.t = "num" -> cell
      [] cell.t = "str" ->
            IF cell.s # <<>> /\ \A i \in 1..Len(cell.s) : IsDigit(cell.s[i])
            THEN Num(DigitsValue(cell.s)) ELSE NaN
      [] OTHER -> NaN

\* pd.to_numeric(row, errors="coerce")
to_numeric(row) == [i \in 1..Len(row) |-> [k |-> row[i].k, v |-> ToNumericCell(row[i].v)]]

Keys(series) == [i \in 1..Len(series) |-> series[i].k]
KeySet(series) == {series[i].k : i \in 1..Len(series)}
HasKey(series, f) == f \in KeySet(series)
Get(series, f) == series[CHOOSE i \in 1..Len(series) : series[i].k = f].v

\* The installed pandas is not pinned, and its outer join of an index with an
\* empty one differs between releases: before 2.2 the other side's index is
\* returned as it stands, from 2.2 on it is sorted.
EmptyJoinBuilds == {"as_is", "sorted"}

\* the index of b - a (outer join of the two indexes): the common index when
\* both are the same, what the build does when one side is empty, else the
\* sorted union of the two
AlignedKeys(a, b, build) ==
    IF Keys(a) = Keys(b) THEN Keys(a)
    ELSE IF Keys(a) = <<>> /\ build = "as_is" THEN Keys(b)
    ELSE IF Keys(b) = <<>> /\ build = "as_is" THEN Keys(a)
    ELSE sorted(Keys(a) \o SelectSeq(Keys(b), LAMBDA f : ~ HasKey(a, f)))

\* the difference taken position by position, as on plain arrays
delta_by_position(b, a, build) ==
    [i \in 1..(IF Len(a) <= Len(b) THEN Len(a) ELSE Len(b)) |->
        [k |-> a[i].k,
         v |-> IF a[i].v.t = "num" /\ b[i].v.t = "num"
               THEN Num(b[i].v.n - a[i].v.n) ELSE NaN]]

\* numeric_B - numeric_A: aligned on the labels, NaN where a side is absent or NaN
delta_radiomics(b, a, build) ==
    LET ks == AlignedKeys(a, b, build)
        cell(f) ==
            IF /\ HasKey(a, f) /\ HasKey(b, f)
               /\ Get(a, f).t = "num" /\ Get(b, f).t = "num"
            THEN Num(Get(b, f).n - Get(a, f).n)
            ELSE NaN
    IN  [i \in 1..Len(ks) |-> [k |-> ks[i], v |-> cell(ks[i])]]

\* Series.dropna().to_dict(): the entries that are not NaN, in order
dropna(series) == SelectSeq(series, LAMBDA e : e.v.t # "nan")

\* the `continue` of lines 74 and 82: nothing is stored
NoMask == <<>>
Skipped(mA, mB) ==
    [outcome |-> "skip", mask_A |-> mA, mask_B |-> mB,
     difference |-> <<>>, delta |-> <<>>, A |-> <<>>, B |-> <<>>]

\* lines 72-96 on two loaded frames when nothing raises: what is stored, or the
\* skip; difference is the Series of line 91 before dropna()
ExtractFrames(dfA, dfB, build) ==
    IF ~ HasSegmentation(dfA) \/ ~ HasSegmentation(dfB) THEN Skipped(NoMask, NoMask)
    ELSE LET mask_A == Mask(dfA)
             mask_B == Mask(dfB)
         IN  IF ~ MaskAny(mask_A) \/ ~ MaskAny(mask_B) THEN Skipped(mask_A, mask_B)
             ELSE LET numeric_A == to_numeric(FeatureRow(dfA, FirstMasked(mask_A)))
                      numeric_B == to_numeric(FeatureRow(dfB, FirstMasked(mask_B)))
                      difference == delta_radiomics(numeric_B, numeric_A, build)
                  IN  [outcome |-> "stored", mask_A |-> mask_A, mask_B |-> mask_B,
                       difference |-> difference,
                       delta |-> dropna(difference),
                       A |-> dropna(numeric_A),
                       B |-> dropna(numeric_B)]

----------------------------------------------------------------------------
(* The inputs the runs are drawn from *)

MaxEntries == 3
MaxRows == 3

Root == <<"d">>
P1 == <<"P", "1">>
P10 == <<"P", "1", "0">>
P2 == <<"P", "2">>

s_A == <<"s", "_", "A">> \o Xlsx
s_B == <<"s", "_", "B">> \o Xlsx

\* directory entries: both markers in either case, both markers at once, an
\* extension in the other case, another extension, no marker
FileNames ==
    {s_A,
     <<"r", "_", "a">> \o Xlsx,
     s_B,
     <<"q", "_", "b">> \o Xlsx,
     <<"p", "_", "b", "_", "a">> \o Xlsx,
     <<"o", "_", "A", ".", "X", "L", "S", "X">>,
     <<"n", "_", "B", ".", "c", "s", "v">>,
     <<"n", "o", "t", "e", "s">> \o Xlsx}

Listings ==
    UNION {Orderings(S) : S \in {T \in SUBSET FileNames : Cardinality(T) <= MaxEntries}}

F1 == <<"F", "1">>
F2 == <<"F", "2">>

suv25 == <<"s", "u", "v", "2", ".", "5">>
suv2x5 == <<"s", "u", "v", "2", "x", "5">>
Labels ==
    {Str(<<"a", "_">> \o suv25 \o <<"_", "5">>),
     Str(suv2x5),
     Str(<<"S", "U", "V", "2", ".", "5">>),
     NaN}

CellValues ==
    {Num(1), Num(3), Str(<<"5">>), Str(<<"n", "/", "a">>), NaN}

\* the columns before the feature block: the label column and the metadata
LeadColumns(label) ==
    <<label>> \o [i \in 1..(feature_start_col - 1) |-> <<"M">> \o Digits(i)]
LeadCells(label) ==
    <<label>> \o [i \in 1..(feature_start_col - 1) |-> Num(0)]

Frame(label, feats, rows) ==
    [columns |-> LeadColumns(label) \o feats,
     rows |-> [r \in 1..Len(rows) |-> LeadCells(rows[r].label) \o rows[r].cells]]

\* frames that differ in their labels: row r holds r in its one feature
LabelFrames ==
    {Frame(Segmentation, <<F1>>,
           [r \in 1..Len(ls) |-> [label |-> ls[r], cells |-> <<Num(r)>>]]) :
        ls \in UNION {[1..m -> Labels] : m \in 0..MaxRows}}

\* frames that differ in their features: one matching row, the feature
\* columns in either order
FeatureLayouts == {<<>>, <<F1>>, <<F2>>, <<F1, F2>>, <<F2, F1>>}
FeatureFrames ==
    UNION {{Frame(Segmentation, feats, <<[label |-> Str(suv25), cells |-> cells]>>) :
                cells \in [1..Len(feats) -> CellValues]} :
           feats \in FeatureLayouts}

\* frames of another layout: no label column; fewer columns than the feature
\* offset; the label column inside the feature block
Label == <<"L", "a", "b", "e", "l">>
NoSegFrame == Frame(Label, <<F1>>, <<[label |-> Str(suv25), cells |-> <<Num(1)>>]>>)
ShortFrame ==
    [columns |-> <<Segmentation, F1>>, rows |-> <<<<Str(suv25), Num(1)>>>>]
LateSegFrame ==
    [columns |-> LeadColumns(Label) \o <<Segmentation, F1>>,
     rows |-> <<LeadCells(NaN) \o <<Str(suv25), Num(1)>>>>]
OddFrames == {NoSegFrame, ShortFrame, LateSegFrame}

Frames == LabelFrames \cup FeatureFrames \cup OddFrames

----------------------------------------------------------------------------
(* _find_patient_ab_files on one directory listing *)

NoFiles == [A |-> None, B |-> None]
NoCandidates == [a |-> <<>>, b |-> <<>>]
FindIdle ==
    fpc = "idle" /\ listing = <<>> /\ candidates = NoCandidates /\ found = NoFiles
NoExtract == Skipped(NoMask, NoMask)
EmptyFrame == [columns |-> <<>>, rows |-> <<>>]
ExtractIdle == epc = "idle" /\ df_A = EmptyFrame /\ df_B = EmptyFrame /\ extracted = NoExtract
EmptyTable == [index |-> <<>>, columns |-> <<>>, data |-> <<>>]
CohortIdle ==
    /\ pc = "idle" /\ queue = <<>> /\ idx = 0 /\ tree = <<>>
    /\ all_delta_radiomics = <<>> /\ A_radiomics = <<>> /\ B_radiomics = <<>>
    /\ located = <<>> /\ warned = <<>> /\ faulted = {}
    /\ delta_df = EmptyTable /\ A_df = EmptyTable /\ B_df = EmptyTable

FindInit ==
    /\ fpc = "call" /\ listing \in Listings
    /\ candidates = NoCandidates /\ found = NoFiles
    /\ ExtractIdle /\ CohortIdle

Find ==
    /\ fpc = "call"
    /\ candidates' = [a |-> a_candidates(join(Root, P1), listing),
                       b |-> b_candidates(join(Root, P1), listing)]
    /\ found' = _find_patient_ab_files(join(Root, P1), listing)
    /\ fpc' = "return"
    /\ UNCHANGED <<listing, extractVars, cohortVars>>

SpecFind == FindInit /\ [][Find]_vars

----------------------------------------------------------------------------
(* one patient's extraction on two loaded frames *)

ExtractInit ==
    /\ epc = "call" /\ df_A \in Frames /\ df_B \in Frames /\ extracted = NoExtract
    /\ FindIdle /\ CohortIdle

Extract ==
    /\ epc = "call"
    /\ \E build \in EmptyJoinBuilds : extracted' = ExtractFrames(df_A, df_B, build)
    /\ epc' = "return"
    /\ UNCHANGED <<df_A, df_B, findVars, cohortVars>>

SpecExtract == ExtractInit /\ [][Extract]_vars

----------------------------------------------------------------------------
(* calculate_delta_radiomics *)

\* a Python dict as the sequence of its (key, value) entries in insertion order
DictSet(d, key, val) ==
    IF \E i \in 1..Len(d) : d[i].k = key
    THEN [i \in 1..Len(d) |-> IF d[i].k = key THEN [k |-> key, v |-> val] ELSE d[i]]
    ELSE Append(d, [k |-> key, v |-> val])

RECURSIVE Flatten(_)
Flatten(seqs) == IF seqs = <<>> THEN <<>> ELSE Head(seqs) \o Flatten(Tail(seqs))

\* the elements of seq in the order of their first occurrence
FirstOccurrences(seq) ==
    LET keep == SelectSeq([i \in 1..Len(seq) |-> i],
                          LAMBDA i : \A j \in 1..(i - 1) : seq[j] # seq[i])
    IN  [n \in 1..Len(keep) |-> seq[keep[n]]]

\* pandas _from_nested_dict: {patient: {feature: x}} turned into
\* {feature: {patient: x}}, features and patients in order of first insertion
FromNestedDict(data) ==
    LET cols == FirstOccurrences(Flatten([i \in 1..Len(data) |-> Keys(data[i].v)]))
        column(c) ==
            LET having == SelectSeq(data, LAMBDA e : HasKey(e.v, c))
            IN  [n \in 1..Len(having) |-> [k |-> having[n].k, v |-> Get(having[n].v, c)]]
    IN  [j \in 1..Len(cols) |-> [k |-> cols[j], v |-> column(cols[j])]]

\* pd.DataFrame.from_dict(data, orient="index") for a dict of dicts: the frame
\* built from the nested dict; its index is the union of the columns' keys in
\* order of first occurrence, its absent cells are NaN
from_dict(data) ==
    LET nested == FromNestedDict(data)
        index == FirstOccurrences(Flatten([j \in 1..Len(nested) |-> Keys(nested[j].v)]))
    IN  [index |-> index,
         columns |-> Keys(nested),
         data |-> [i \in 1..Len(index) |->
                    [j \in 1..Len(nested) |->
                        IF HasKey(nested[j].v, index[i])
                        THEN Get(nested[j].v, index[i]) ELSE NaN]]]

\* what a spreadsheet file holds: a frame, or nothing pd.read_excel can load
Corrupt == [ok |-> FALSE, df |-> EmptyFrame]
Loaded(df) == [ok |-> TRUE, df |-> df]

OneRow(label, feats, cells) ==
    Frame(Segmentation, feats, <<[label |-> label, cells |-> cells]>>)
NoMatchFrame == OneRow(NaN, <<F1>>, <<Num(1)>>)
RegexOnlyFrame == OneRow(Str(suv2x5), <<F1>>, <<Num(1)>>)
FrameF1 == OneRow(Str(suv25), <<F1>>, <<Num(1)>>)
FrameF2 == OneRow(Str(suv25), <<F2>>, <<Num(3)>>)

FileContents ==
    {Corrupt} \cup
    {Loaded(df) : df \in {NoSegFrame, NoMatchFrame, RegexOnlyFrame, FrameF1, FrameF2}}

\* what the root holds under one name: a plain file, a directory that cannot
\* be listed, or a directory with its files in the order os.listdir yields them
File(name, content) == [name |-> name, content |-> content]
NotADirectory == [isdir |-> FALSE, readable |-> TRUE, files |-> <<>>]
Unreadable == [isdir |-> TRUE, readable |-> FALSE, files |-> <<>>]
Directory(files) == [isdir |-> TRUE, readable |-> TRUE, files |-> files]
Entries ==
    {NotADirectory, Unreadable, Directory(<<>>),
     Directory(<<File(s_A, Loaded(FrameF1))>>),
     Directory(<<File(s_B, Loaded(FrameF1))>>)} \cup
    {Directory(<<File(s_B, b), File(s_A, a)>>) : a, b \in FileContents}

PatientNames == {P1, P10, P2}

\* an exception raised while line 95 or line 96 is evaluated, or none
StoreFaults == {"none", "line95", "line96"}

\* os.listdir(patient_path)
Names(e) == [i \in 1..Len(e.files) |-> e.files[i].name]

\* the file of directory entry e that path names
FileAt(patient_path, e, path) ==
    e.files[CHOOSE i \in 1..Len(e.files) : join(patient_path, e.files[i].name) = path].content

\* `not file_B_path` alone: it also warns when neither file is there
WarnWithoutB(files) == files.B = None

\* `file_A_path and not file_B_path`
ShouldWarn(files) == files.A # None /\ files.B = None

\* lines 69-91: both files are read and the rows extracted; pd.read_excel
\* raises on a file it cannot load
Raised == [Skipped(NoMask, NoMask) EXCEPT !.outcome = "raise"]
ReadAndExtract(cA, cB, build) ==
    IF ~ cA.ok \/ ~ cB.ok THEN Raised ELSE ExtractFrames(cA.df, cB.df, build)

\* lines 94-96 and the except clause: the three stores, cut short by an exception
Store(p, r, fault, maps) ==
    CASE r.outcome = "raise" -> [maps EXCEPT !.faulted = TRUE]
      [] r.outcome = "skip" -> maps
      [] r.outcome = "stored" /\ fault = "line95" ->
            [maps EXCEPT !.faulted = TRUE,
                         !.delta = DictSet(maps.delta, p, r.delta)]
      [] r.outcome = "stored" /\ fault = "line96" ->
            [maps EXCEPT !.faulted = TRUE,
                         !.delta = DictSet(maps.delta, p, r.delta),
                         !.A = DictSet(maps.A, p, r.A)]
      [] OTHER ->
            [maps EXCEPT !.delta = DictSet(maps.delta, p, r.delta),
                         !.A = DictSet(maps.A, p, r.A),
                         !.B = DictSet(maps.B, p, r.B)]

CohortInit ==
    /\ pc = "start" /\ queue = <<>> /\ idx = 0 /\ tree = <<>>
    /\ all_delta_radiomics = <<>> /\ A_radiomics = <<>> /\ B_radiomics = <<>>
    /\ located = <<>> /\ warned = <<>> /\ faulted = {}
    /\ delta_df = EmptyTable /\ A_df = EmptyTable /\ B_df = EmptyTable
    /\ FindIdle /\ ExtractIdle

\* line 43: sorted(os.listdir(data_folder_path)), whatever order the listing has
Start ==
    /\ pc = "start"
    /\ \E order \in Orderings(PatientNames) : queue' = sorted(order)
    /\ idx' = 1
    /\ pc' = "loop"
    /\ UNCHANGED <<tree, all_delta_radiomics, A_radiomics, B_radiomics, located,
                   warned, faulted, delta_df, A_df, B_df, findVars, extractVars>>

\* lines 44-100: one iteration of the loop, for the entry e found under name p
Iteration(p, e) ==
    LET patient_path == join(Root, p)
        maps == [faulted |-> FALSE, delta |-> all_delta_radiomics,
                 A |-> A_radiomics, B |-> B_radiomics]
    IN  /\ tree' = tree @@ (p :> e)
        /\ IF ~ e.isdir
           THEN /\ pc' = "loop" /\ idx' = idx + 1
                /\ UNCHANGED <<all_delta_radiomics, A_radiomics, B_radiomics,
                               located, warned, faulted>>
           ELSE IF ~ e.readable
           THEN \* os.listdir(patient_path) raises at line 49, outside the try
                /\ pc' = "raised" /\ idx' = idx
                /\ faulted' = faulted \cup {p}
                /\ UNCHANGED <<all_delta_radiomics, A_radiomics, B_radiomics,
                               located, warned>>
           ELSE \E files \in {_find_patient_ab_files(patient_path, Names(e))} :
                /\ pc' = "loop" /\ idx' = idx + 1
                /\ located' = located @@ (p :> files)
                /\ warned' = IF ShouldWarn(files) THEN Append(warned, p) ELSE warned
                /\ IF files.A = None \/ files.B = None
                   THEN UNCHANGED <<all_delta_radiomics, A_radiomics, B_radiomics, faulted>>
                   ELSE \E build \in EmptyJoinBuilds :
                        \E r \in {ReadAndExtract(FileAt(patient_path, e, files.A),
                                                 FileAt(patient_path, e, files.B), build)} :
                        \E fault \in (IF r.outcome = "stored" THEN StoreFaults ELSE {"none"}) :
                        \E after \in {Store(p, r, fault, maps)} :
                            /\ faulted' = IF after.faulted THEN faulted \cup {p} ELSE faulted
                            /\ all_delta_radiomics' = after.delta
                            /\ A_radiomics' = after.A
                            /\ B_radiomics' = after.B

Step ==
    /\ pc = "loop" /\ idx <= Len(queue)
    /\ \E e \in Entries : Iteration(queue[idx], e)
    /\ UNCHANGED <<queue, delta_df, A_df, B_df, findVars, extractVars>>

\* lines 102-106: the three mappings become the three tables
Return ==
    /\ pc = "loop" /\ idx > Len(queue)
    /\ A_df' = from_dict(A_radiomics)
    /\ B_df' = from_dict(B_radiomics)
    /\ delta_df' = from_dict(all_delta_radiomics)
    /\ pc' = "done"
    /\ UNCHANGED <<queue, idx, tree, all_delta_radiomics, A_radiomics, B_radiomics,
                   located, warned, faulted, findVars, extractVars>>

Init == CohortInit
Next == Start \/ Step \/ Return
Spec == Init /\ [][Next]_vars

----------------------------------------------------------------------------
(* What the claims speak of *)

Range(seq) == {seq[i] : i \in 1..Len(seq)}
Count(seq, x) == Cardinality({i \in 1..Len(seq) : seq[i] = x})

\* the tag as a literal, case-sensitive substring of a label that is a text
LiteralMatch(cell) == cell.t = "str" /\ Contains(suv25, cell.s)
LabelOf(df, r) ==
    df.rows[r][CHOOSE i \in 1..Len(df.columns) : df.columns[i] = Segmentation]
LiteralRows(df) == {r \in 1..Len(df.rows) : LiteralMatch(LabelOf(df, r))}
FirstOf(S) == CHOOSE r \in S : \A q \in S : r <= q

\* a cell coerces to a number, and the number it coerces to
IsNumber(cell) == ToNumericCell(cell).t = "num"
NumberOf(cell) == ToNumericCell(cell).n

\* the rows of a table and the keys of a mapping, as sets
RowSet(table) == Range(table.index)
Stored(mapping) == KeySet(mapping)
Cell(table, p, f) ==
    table.data[CHOOSE i \in 1..Len(table.index) : table.index[i] = p]
              [CHOOSE j \in 1..Len(table.columns) : table.columns[j] = f]

FindDir == join(Root, P1)
BothMarkers == <<"p", "_", "b", "_", "a">> \o Xlsx

----------------------------------------------------------------------------
(* File Locator *)

\* C9: each slot returned is None when it has no candidate and else the
\* smallest path of its candidates in code-point order, and the pair returned
\* is the same for every order in which the same entries are listed.
C9_SmallestPathAnyOrder ==
    fpc = "return" =>
        /\ \A slot \in {"a", "b"} :
            LET cands == Range(candidates[slot])
                got == IF slot = "a" THEN found.A ELSE found.B
            IN  IF cands = {} THEN got = None
                ELSE got \in cands /\ \A q \in cands : q = got \/ StrLess(got, q)
        /\ \A other \in Orderings(Range(listing)) :
            _find_patient_ab_files(FindDir, other) = found

\* two Time-A candidates listed with the greater path first
C9_Witness ==
    /\ fpc = "return"
    /\ Len(candidates.a) >= 2
    /\ found.A # candidates.a[1]
    /\ found.A = join(FindDir, <<"r", "_", "a">> \o Xlsx)

\* C10: an entry is a Time-A candidate iff its name ends with .xlsx and its
\* upper-cased name contains _A; a Time-B candidate iff its name ends with
\* .xlsx, has no _A and contains _B; no entry is in both slots, and the two
\* paths returned are never the same file.
C10_OneSlotPerEntry ==
    fpc = "return" =>
        /\ \A i \in 1..Len(listing) :
            LET n == listing[i]
                inA == join(FindDir, n) \in Range(candidates.a)
                inB == join(FindDir, n) \in Range(candidates.b)
                hasA == Contains(MarkA, upper(n))
                hasB == Contains(MarkB, upper(n))
            IN  /\ inA <=> (endswith(n, Xlsx) /\ hasA)
                /\ inB <=> (endswith(n, Xlsx) /\ ~ hasA /\ hasB)
                /\ ~ (inA /\ inB)
        /\ Range(candidates.a) \cup Range(candidates.b) \subseteq
                {join(FindDir, listing[i]) : i \in 1..Len(listing)}
        /\ found.A # None => found.A # found.B

\* a name with both markers is the Time-A file, another file the Time-B file
C10_Witness ==
    /\ fpc = "return"
    /\ found.A = join(FindDir, BothMarkers)
    /\ found.B = join(FindDir, s_B)

----------------------------------------------------------------------------
(* Row selection and delta *)

\* C5: a row's mask is true iff its label is a text that contains suv2.5 as a
\* literal, case-sensitive substring; a missing label never matches.
C5_LiteralTagMatch ==
    (epc = "return" /\ HasSegmentation(df_A) /\ HasSegmentation(df_B)) =>
        /\ \A r \in 1..Len(df_A.rows) : extracted.mask_A[r] <=> LiteralMatch(LabelOf(df_A, r))
        /\ \A r \in 1..Len(df_B.rows) : extracted.mask_B[r] <=> LiteralMatch(LabelOf(df_B, r))

\* C8: when several rows of a table match the tag, the row used is the first
\* of them, on the Time-A and on the Time-B side.
C8_FirstMatchingRow ==
    (/\ epc = "return" /\ HasSegmentation(df_A) /\ HasSegmentation(df_B)
     /\ LiteralRows(df_A) # {} /\ LiteralRows(df_B) # {}
     /\ Cardinality(LiteralRows(df_A)) >= 2 \/ Cardinality(LiteralRows(df_B)) >= 2) =>
        LET rowA == to_numeric(FeatureRow(df_A, FirstOf(LiteralRows(df_A))))
            rowB == to_numeric(FeatureRow(df_B, FirstOf(LiteralRows(df_B))))
        IN  /\ extracted.outcome = "stored"
            /\ extracted.A = dropna(rowA)
            /\ extracted.B = dropna(rowB)
            /\ \E build \in EmptyJoinBuilds :
                   extracted.delta = dropna(delta_radiomics(rowB, rowA, build))

\* C6: the Delta Record holds feature f iff f is in both selected rows and
\* coerces to a number on both sides, and then holds numeric(B[f]) -
\* numeric(A[f]); the stored A row is A's features that coerce to a number,
\* the stored B row is B's, each with its coerced value.
C6_DeltaByFeatureName ==
    (epc = "return" /\ extracted.outcome = "stored") =>
        LET rowA == FeatureRow(df_A, FirstMasked(extracted.mask_A))
            rowB == FeatureRow(df_B, FirstMasked(extracted.mask_B))
            numA(f) == HasKey(rowA, f) /\ IsNumber(Get(rowA, f))
            numB(f) == HasKey(rowB, f) /\ IsNumber(Get(rowB, f))
        IN  /\ \A f \in KeySet(rowA) \cup KeySet(rowB) \cup KeySet(extracted.delta)
                        \cup KeySet(extracted.A) \cup KeySet(extracted.B) :
                /\ HasKey(extracted.delta, f) <=> (numA(f) /\ numB(f))
                /\ HasKey(extracted.delta, f) =>
                     Get(extracted.delta, f) =
                        Num(NumberOf(Get(rowB, f)) - NumberOf(Get(rowA, f)))
                /\ HasKey(extracted.A, f) <=> numA(f)
                /\ HasKey(extracted.A, f) => Get(extracted.A, f) = Num(NumberOf(Get(rowA, f)))
                /\ HasKey(extracted.B, f) <=> numB(f)
                /\ HasKey(extracted.B, f) => Get(extracted.B, f) = Num(NumberOf(Get(rowB, f)))
                /\ Count(Keys(extracted.delta), f) <= 1
                /\ Count(Keys(extracted.A), f) <= 1
                /\ Count(Keys(extracted.B), f) <= 1

\* Time-A row {F1: 1, F2: "n/a"} and Time-B row {F2: "5", F1: 3}, the columns
\* in opposite orders: delta {F1: 2}, A row {F1: 1}, B row {F2: 5, F1: 3}
C6_Witness ==
    /\ epc = "return" /\ extracted.outcome = "stored"
    /\ FeatureRow(df_A, 1) = <<[k |-> F1, v |-> Num(1)],
                               [k |-> F2, v |-> Str(<<"n", "/", "a">>)]>>
    /\ FeatureRow(df_B, 1) = <<[k |-> F2, v |-> Str(<<"5">>)], [k |-> F1, v |-> Num(3)]>>
    /\ extracted.delta = <<[k |-> F1, v |-> Num(2)]>>
    /\ extracted.A = <<[k |-> F1, v |-> Num(1)]>>
    /\ extracted.B = <<[k |-> F2, v |-> Num(5)], [k |-> F1, v |-> Num(3)]>>

----------------------------------------------------------------------------
(* Cohort *)

InAnyMapping(p) ==
    p \in Stored(all_delta_radiomics) \cup Stored(A_radiomics) \cup Stored(B_radiomics)
InAnyTable(p) == p \in RowSet(delta_df) \cup RowSet(A_df) \cup RowSet(B_df)
OnlyTimeA(p) == p \in DOMAIN located /\ located[p].A # None /\ located[p].B = None

\* the conditions under which a patient is to contribute a Delta row
Contributes(p) ==
    /\ p \in DOMAIN located
    /\ located[p].A # None /\ located[p].B # None
    /\ LET cA == FileAt(join(Root, p), tree[p], located[p].A)
           cB == FileAt(join(Root, p), tree[p], located[p].B)
       IN  /\ cA.ok /\ cB.ok
           /\ HasSegmentation(cA.df) /\ HasSegmentation(cB.df)
           /\ LiteralRows(cA.df) # {} /\ LiteralRows(cB.df) # {}
           /\ LET rowA == FeatureRow(cA.df, FirstOf(LiteralRows(cA.df)))
                  rowB == FeatureRow(cB.df, FirstOf(LiteralRows(cB.df)))
              IN  \E f \in KeySet(rowA) \cap KeySet(rowB) :
                    IsNumber(Get(rowA, f)) /\ IsNumber(Get(rowB, f))

\* C1: in a run in which no exception was raised, a patient is a row of the
\* Delta table iff it is a row of the A table and a row of the B table.
C1_SamePatientRows ==
    (pc = "done" /\ faulted = {}) =>
        \A p \in PatientNames :
            p \in RowSet(delta_df) <=> (p \in RowSet(A_df) /\ p \in RowSet(B_df))

\* C2: a patient is a row of the Delta table iff both files are resolved,
\* both load, both have the Segmentation column, both have a row whose label
\* contains the tag, and a feature is numeric in both selected rows.
C2_DeltaRowIff ==
    pc = "done" =>
        \A p \in PatientNames : p \in RowSet(delta_df) <=> Contributes(p)

\* C3: patient p is warned about exactly once if the locator resolved a
\* Time-A file and no Time-B file for p, and never otherwise; a patient
\* warned about is in none of the mappings and none of the tables.
C3_WarnIffOnlyTimeA ==
    \A p \in PatientNames :
        /\ Count(warned, p) = (IF OnlyTimeA(p) THEN 1 ELSE 0)
        /\ OnlyTimeA(p) => ~ InAnyMapping(p) /\ ~ InAnyTable(p)

\* one patient stored, one warned about, one with a Time-B file only
C3_Witness ==
    /\ pc = "done"
    /\ warned = <<P10>>
    /\ P1 \in RowSet(delta_df)
    /\ located[P2].A = None /\ located[P2].B # None

\* C4: no exception leaves the function, a patient whose processing raised
\* is in none of the three mappings, and the loop reaches every patient.
C4_FaultIsolated ==
    /\ pc # "raised"
    /\ \A p \in faulted : ~ InAnyMapping(p)
    /\ pc = "done" => DOMAIN tree = PatientNames

\* C7: each table has one row per patient stored in its mapping, in insertion
\* order, which is the sorted order of the names; its columns are the union
\* of the stored features; a cell holds the stored value, or is missing.
\* Stated for the mappings in which every patient stored a feature.
C7_RowsInInsertionOrder ==
    pc = "done" =>
        \A pair \in {<<all_delta_radiomics, delta_df>>, <<A_radiomics, A_df>>,
                     <<B_radiomics, B_df>>} :
            LET mapping == pair[1]
                table == pair[2]
            IN  (\A i \in 1..Len(mapping) : mapping[i].v # <<>>) =>
                /\ table.index = Keys(mapping)
                /\ \A i, j \in 1..Len(table.index) :
                        i < j => StrLess(table.index[i], table.index[j])
                /\ Range(table.columns) = UNION {KeySet(mapping[i].v) : i \in 1..Len(mapping)}
                /\ \A i \in 1..Len(mapping) : \A f \in Range(table.columns) :
                        Cell(table, mapping[i].k, f) =
                            IF HasKey(mapping[i].v, f) THEN Get(mapping[i].v, f) ELSE NaN

====
